---- MODULE Spec2Model ----
(***************************************************************************)
(* cpu_watcher (src/main.rs): the polling loop of main, its cooldown table *)
(* `alerted`, the Telegram send and the sweep of old records.              *)
(*                                                                         *)
(* Time is counted in whole seconds and every reading of                   *)
(* SystemTime::now() is an arbitrary value of Times: the wall clock is not *)
(* monotonic.  u64 / i64 arithmetic keeps its wrap-around and its panics   *)
(* at a reduced width of U64Bits bits.                                     *)
(***************************************************************************)
EXTENDS Integers, Sequences, FiniteSets, TLC

\* ------------------------------------------------------------- bounds
MaxTime == 5
U64Bits == 6

Pids == {1, 2}
Times == 0..MaxTime

RECURSIVE Pow2(_)
Pow2(n) == IF n = 0 THEN 1 ELSE 2 * Pow2(n - 1)

\* u64::MAX + 1 and the least second a SystemTime (i64 seconds) can hold.
U64Mod == Pow2(U64Bits)
I64Min == 0 - Pow2(U64Bits - 1)

\* ------------------------------------------------------ configuration
\* f32 values: an integer, or NaN (which compares false with everything).
NaN == 0 - 1
Thresholds == {2, NaN}
CpuValues == {1, 2, 3, NaN}
\* process.start_time(): 0 (unknown, create_time is None) or a second.  With
\* the name and the command line it is what tells two processes of one pid
\* apart, and it goes into the message only.
StartTimes == {0, 3}
\* COOLDOWN_SECONDS is any u64.  Three ordinary values, for which 5*c fits
\* and `now - 5*c` is a SystemTime; the least value whose 5*c takes
\* `now - 5*c` below the SystemTime range at every reading; and the least
\* value whose 5*c exceeds u64::MAX (and wraps to a small number).
PanicCooldown == (U64Mod \div 2 + MaxTime) \div 5 + 1
WrapCooldown == U64Mod \div 5 + 1
Cooldowns == {0, 1, 2, PanicCooldown, WrapCooldown}

\* CHECK_INTERVAL is any f64, counted here in half milliseconds: NaN, a
\* negative value, values without and with a fraction of a millisecond, and
\* one whose milliseconds exceed u64::MAX.  MainIntervals is the part of
\* them used where the interval does not matter.
CheckIntervals == {NaN, 0 - 2, 2, 3, 2 * U64Mod}
MainIntervals == {2}

NoSleep == 0 - 1
NoPid == 0 - 1
NoTime == 0 - 1

VARIABLES
    pc,                \* position of main: start, sleep, refresh, loop, send,
                       \*   panicked
    bot_token,         \* TELEGRAM_BOT_TOKEN is set
    chat_id,           \* TELEGRAM_CHAT_ID is set
    overflow_checks,   \* the build panics on integer overflow (debug profile)
    threshold,
    check_interval,
    cooldown_seconds,
    alerted,           \* HashMap<Pid, SystemTime> as a set of <<pid, time>>
    procs,             \* the rest of the iteration over sys.processes()
    sending,           \* <<>> or <<[pid, cpu, now]>>: the send being awaited
    attempts,          \* history: send_telegram calls per pid in this tick
    lastOk,            \* history: pid -> `now` of its latest Ok(true) send
    retry,             \* history: pid -> 1 its send failed in this tick,
                       \*   2 it failed in the tick before, 0 otherwise
    slept,             \* history: milliseconds of the sleep made since the
                       \*   loop came to its head, NoSleep if none
    ev                 \* history: what the last step did

vars == <<pc, bot_token, chat_id, overflow_checks, threshold, check_interval,
          cooldown_seconds, alerted, procs, sending, attempts, lastOk, retry,
          slept, ev>>

config == <<bot_token, chat_id, overflow_checks, threshold, check_interval,
            cooldown_seconds>>

\* ------------------------------------------------------------ helpers
\* f32 `>=` with the comparison made strict / turned around
FGt(a, b) == a # NaN /\ b # NaN /\ a > b
FLe(a, b) == a # NaN /\ b # NaN /\ a <= b
\* f32 `>=`
FGe(a, b) == a # NaN /\ b # NaN /\ a >= b

\* HashMap operations on a set of <<key, value>> entries.
Keys(m) == {e[1] : e \in m}
ContainsKey(m, k) == k \in Keys(m)
Get(m, k) == (CHOOSE e \in m : e[1] = k)[2]
Insert(m, k, v) == {e \in m : e[1] # k} \cup {<<k, v>>}
\* a retain that keeps every record
RetainAll(m, cutoff) == m
\* the retain test made inclusive
RetainInclusive(m, cutoff) == {e \in m : e[2] >= cutoff}
Retain(m, cutoff) == {e \in m : e[2] > cutoff}

\* now.duration_since(last): Ok(now - last) when last <= now, else Err.
DurationSinceOk(now, last) == last <= now
\* the cooldown test made against every record of the table
SuppressedByAny(m, pid, now, cooldown) ==
    \E e \in m : DurationSinceOk(now, e[2]) /\ now - e[2] < cooldown
\* the cooldown test made inclusive
SuppressedInclusive(m, pid, now, cooldown) ==
    /\ ContainsKey(m, pid)
    /\ DurationSinceOk(now, Get(m, pid))
    /\ now - Get(m, pid) <= cooldown
\* lines 151-157: the `continue` is taken
Suppressed(m, pid, now, cooldown) ==
    /\ ContainsKey(m, pid)
    /\ DurationSinceOk(now, Get(m, pid))
    /\ now - Get(m, pid) < cooldown
\* a sliding window: the suppressed observation restarts the cooldown
ContinuedSliding(m, pid, now) == Insert(m, pid, now)
\* line 154: the `continue` leaves the record as it is
Continued(m, pid, now) == m

\* line 141: (check_interval * 1000.0) as u64, a saturating cast that drops
\* the fraction and maps NaN and negative values to 0
SleepMillis(interval) ==
    IF interval = NaN \/ interval < 0 THEN 0
    ELSE IF interval \div 2 >= U64Mod THEN U64Mod - 1
    ELSE interval \div 2

\* cooldown_seconds * 5 in u64
MulOverflows(cooldown) == cooldown * 5 >= U64Mod
CutoffSecs(cooldown) == (cooldown * 5) % U64Mod
\* SystemTime - Duration panics when the result is not representable
SubOverflows(now, secs) == now - secs < I64Min
GcPanics(now, cooldown, checks) ==
    \/ checks /\ MulOverflows(cooldown)
    \/ SubOverflows(now, CutoffSecs(cooldown))

\* sys.processes() is a HashMap<Pid, Process>: each pid at most once, in
\* any order.
RECURSIVE Orders(_)
Orders(S) ==
    IF S = {} THEN {<<>>}
    ELSE UNION {{<<p>> \o s : s \in Orders(S \ {p})} : p \in S}
Snapshots ==
    UNION {{[i \in 1..Len(o) |->
                [pid |-> o[i], cpu |-> c[o[i]], start |-> b[o[i]]]] :
                c \in [S -> CpuValues], b \in [S -> StartTimes],
                o \in Orders(S)} : S \in SUBSET Pids}

\* the cooldown kept per process, not per pid: a process started after the
\* alert is not suppressed
DecisionPerProcess(m, proc, now, thr, cooldown) ==
    IF ~FGe(proc.cpu, thr) THEN "below"
    ELSE IF /\ Suppressed(m, proc.pid, now, cooldown)
            /\ (proc.start = 0 \/ proc.start <= Get(m, proc.pid))
         THEN "suppressed"
    ELSE "attempt"
\* lines 148-157: what the loop does with one process of the snapshot
Decision(m, proc, now, thr, cooldown) ==
    IF ~FGe(proc.cpu, thr) THEN "below"
    ELSE IF Suppressed(m, proc.pid, now, cooldown) THEN "suppressed"
    ELSE "attempt"

Event(kind, pid, cpu, now, before) ==
    [kind |-> kind, pid |-> pid, cpu |-> cpu, now |-> now, before |-> before,
     start |-> 0]
EvalEvent(kind, proc, now, before) ==
    [kind |-> kind, pid |-> proc.pid, cpu |-> proc.cpu, now |-> now,
     before |-> before, start |-> proc.start]

\* --------------------------------------------------------------- Init
Init ==
    /\ pc = "start"
    /\ bot_token \in BOOLEAN
    /\ chat_id \in BOOLEAN
    /\ threshold \in Thresholds
    /\ check_interval \in MainIntervals
    /\ cooldown_seconds \in Cooldowns
    /\ overflow_checks \in (IF MulOverflows(cooldown_seconds) THEN BOOLEAN ELSE {FALSE})
    /\ alerted = {}
    /\ procs = <<>>
    /\ sending = <<>>
    /\ attempts = [p \in Pids |-> 0]
    /\ lastOk = {}
    /\ retry = [p \in Pids |-> 0]
    /\ slept = NoSleep
    /\ ev = Event("init", NoPid, NaN, NoTime, {})

\* ------------------------------------------------------------ actions
\* one credential taken to be enough
CredentialsEither(token, chat) == token \/ chat
\* lines 123-126: both env::var(..).expect(..) return
CredentialsSet(token, chat) == token /\ chat
\* the send spawned instead of awaited: the loop runs on during a send
LoopRunsDetached(p) == p \in {"loop", "send"}
\* line 180: the for loop and the sweep run only while no send is awaited
LoopRuns(p) == p = "loop"

\* the loop made to start with the refresh
LoopHeadNoSleep == "refresh"
\* lines 140-141: the body of `loop` starts with the sleep
LoopHead == "sleep"

\* lines 123-138: both credentials are required, then the table is created.
Startup ==
    /\ pc = "start"
    /\ pc' = IF CredentialsSet(bot_token, chat_id) THEN LoopHead ELSE "panicked"
    /\ ev' = Event(IF CredentialsSet(bot_token, chat_id) THEN "started" ELSE "abort",
                   NoPid, NaN, NoTime, alerted)
    /\ UNCHANGED <<config, alerted, procs, sending, attempts, lastOk, retry,
                   slept>>

\* line 141: tokio::time::sleep(..).await
Sleep ==
    /\ pc = "sleep"
    /\ pc' = "refresh"
    /\ slept' = SleepMillis(check_interval)
    /\ ev' = Event("sleep", NoPid, NaN, NoTime, alerted)
    /\ UNCHANGED <<config, alerted, procs, sending, attempts, lastOk, retry>>

\* lines 143-145: refresh, start iterating over the snapshot.
Tick ==
    /\ pc = "refresh"
    /\ procs' \in Snapshots
    /\ pc' = "loop"
    /\ attempts' = [p \in Pids |-> 0]
    /\ retry' = [p \in Pids |-> IF retry[p] = 1 THEN 2 ELSE 0]
    /\ ev' = Event("tick", NoPid, NaN, NoTime, alerted)
    /\ UNCHANGED <<config, alerted, sending, lastOk, slept>>

\* lines 145-180: one iteration of the for loop up to the await of the send.
Evaluate ==
    /\ LoopRuns(pc)
    /\ procs # <<>>
    /\ LET proc == Head(procs)
           pid == proc.pid
           cpu == proc.cpu
       IN /\ procs' = Tail(procs)
          /\ IF Decision(alerted, proc, NoTime, threshold, cooldown_seconds) = "below"
             THEN /\ pc' = "loop"
                  /\ ev' = EvalEvent("below", proc, NoTime, alerted)
                  /\ UNCHANGED <<alerted, sending, attempts>>
             ELSE \E now \in Times :
                    IF Decision(alerted, proc, now, threshold, cooldown_seconds)
                           = "suppressed"
                    THEN /\ pc' = "loop"
                         /\ alerted' = Continued(alerted, pid, now)
                         /\ ev' = EvalEvent("suppressed", proc, now, alerted)
                         /\ UNCHANGED <<sending, attempts>>
                    ELSE /\ pc' = "send"
                         /\ sending' = <<[pid |-> pid, cpu |-> cpu, now |-> now]>>
                         /\ UNCHANGED alerted
                         /\ attempts' = [attempts EXCEPT ![pid] = @ + 1]
                         /\ ev' = EvalEvent("attempt", proc, now, alerted)
    /\ UNCHANGED <<config, lastOk, retry, slept>>

\* lines 65-85 and 180-191: the outcome of send_telegram and its match.
SendOutcomes == {"Ok(true)", "Ok(false)", "Err"}
Recorded(m, pid, now, r) == IF r = "Ok(true)" THEN Insert(m, pid, now) ELSE m
SendDone(r) ==
    /\ pc = "send"
    /\ LET pid == sending[1].pid
           now == sending[1].now
       IN /\ alerted' = Recorded(alerted, pid, now, r)
          /\ lastOk' = IF r = "Ok(true)" THEN Insert(lastOk, pid, now) ELSE lastOk
          /\ retry' = [retry EXCEPT ![pid] = IF r = "Ok(true)" THEN 0 ELSE 1]
          /\ ev' = Event(r, pid, sending[1].cpu, now, alerted)
    /\ sending' = <<>>
    /\ pc' = "loop"
    /\ UNCHANGED <<config, procs, attempts, slept>>

\* lines 195-198: the sweep after the for loop, then back to the sleep.
SweepAt(now) ==
    /\ LoopRuns(pc)
    /\ procs = <<>>
    /\   IF GcPanics(now, cooldown_seconds, overflow_checks)
         THEN /\ pc' = "panicked"
              /\ ev' = Event("gc_panic", NoPid, NaN, now, alerted)
              /\ UNCHANGED <<alerted, slept>>
         ELSE /\ pc' = LoopHead
              /\ slept' = NoSleep
              /\ alerted' = Retain(alerted, now - CutoffSecs(cooldown_seconds))
              /\ ev' = Event("gc", NoPid, NaN, now, alerted)
    /\ UNCHANGED <<config, procs, sending, attempts, lastOk, retry>>
Sweep == \E now \in Times : SweepAt(now)

Next ==
    \/ Startup
    \/ Sleep
    \/ Tick
    \/ Evaluate
    \/ \E r \in SendOutcomes : SendDone(r)
    \/ Sweep

Spec == Init /\ [][Next]_vars

\* Every CHECK_INTERVAL, with the rest of the configuration fixed.
InitSleep ==
    /\ pc = "start"
    /\ bot_token = TRUE
    /\ chat_id = TRUE
    /\ threshold = 2
    /\ check_interval \in CheckIntervals
    /\ cooldown_seconds = 2
    /\ overflow_checks = FALSE
    /\ alerted = {}
    /\ procs = <<>>
    /\ sending = <<>>
    /\ attempts = [p \in Pids |-> 0]
    /\ lastOk = {}
    /\ retry = [p \in Pids |-> 0]
    /\ slept = NoSleep
    /\ ev = Event("init", NoPid, NaN, NoTime, {})
SpecSleep == InitSleep /\ [][Next]_vars

\* The default threshold and an ordinary cooldown.
InitOrder ==
    /\ pc = "start"
    /\ bot_token = TRUE
    /\ chat_id = TRUE
    /\ threshold = 2
    /\ check_interval \in MainIntervals
    /\ cooldown_seconds = 2
    /\ overflow_checks = FALSE
    /\ alerted = {}
    /\ procs = <<>>
    /\ sending = <<>>
    /\ attempts = [p \in Pids |-> 0]
    /\ lastOk = {}
    /\ retry = [p \in Pids |-> 0]
    /\ slept = NoSleep
    /\ ev = Event("init", NoPid, NaN, NoTime, {})
SpecOrder == InitOrder /\ [][Next]_vars

\* The loop under fair scheduling: the task is always resumed (the sleep
\* ends, the refresh returns, each send resolves within its timeout), and
\* the clock goes on to the last reading of Times, so that sweeps keep
\* being made at that reading.
InitLive ==
    /\ pc = "start"
    /\ bot_token = TRUE
    /\ chat_id = TRUE
    /\ threshold = 2
    /\ check_interval \in MainIntervals
    /\ cooldown_seconds = 1
    /\ overflow_checks = FALSE
    /\ alerted = {}
    /\ procs = <<>>
    /\ sending = <<>>
    /\ attempts = [p \in Pids |-> 0]
    /\ lastOk = {}
    /\ retry = [p \in Pids |-> 0]
    /\ slept = NoSleep
    /\ ev = Event("init", NoPid, NaN, NoTime, {})
SpecLive ==
    /\ InitLive
    /\ [][Next]_vars
    /\ WF_vars(Next)
    /\ SF_vars(SweepAt(MaxTime))

\* lines 145-193: the for loop over the snapshot `ps` from the table `m`,
\* the i-th process evaluated, when at or above the threshold, being given
\* the clock reading nowAt[<<i, pid>>] (line 149) and its send, if any, the
\* outcome resOf[pid].
RECURSIVE TickRun(_, _, _, _, _, _)
TickRun(m, att, ps, i, nowAt, resOf) ==
    IF ps = <<>> THEN [table |-> m, attempted |-> att]
    ELSE IF ~FGe(Head(ps).cpu, threshold)
    THEN TickRun(m, att, Tail(ps), i + 1, nowAt, resOf)
    ELSE LET proc == Head(ps)
             now == nowAt[<<i, proc.pid>>]
             d == Decision(m, proc, now, threshold, cooldown_seconds)
         IN IF d = "attempt"
            THEN TickRun(Recorded(m, proc.pid, now, resOf[proc.pid]),
                         att \cup {proc.pid}, Tail(ps), i + 1, nowAt, resOf)
            ELSE IF d = "suppressed"
            THEN TickRun(Continued(m, proc.pid, now), att, Tail(ps), i + 1,
                         nowAt, resOf)
            ELSE TickRun(m, att, Tail(ps), i + 1, nowAt, resOf)

\* ------------------------------------------------------------- claims
\* What the last step was, read from ev.
EvalKinds == {"below", "suppressed", "attempt"}
Failures == {"Ok(false)", "Err"}
IsEval == ev.kind \in EvalKinds
AtOrAbove == ev.cpu # NaN /\ threshold # NaN /\ ev.cpu >= threshold
Below == ev.cpu # NaN /\ threshold # NaN /\ ev.cpu < threshold
HadRecord == \E e \in ev.before : e[1] = ev.pid
OldStamp == Get(ev.before, ev.pid)
RecordsOf(m, pid) == {e \in m : e[1] = pid}

\* C1: after a successful notification for a pid at clock reading t, no
\* attempt for that pid is made at an evaluation whose reading is earlier
\* than t + cooldown_seconds (t being the latest such notification).
C1_RateLimit ==
    (ev.kind = "attempt" /\ ContainsKey(lastOk, ev.pid))
        => ev.now >= Get(lastOk, ev.pid) + cooldown_seconds

\* C2: no attempt is made for a process whose record has an age (reading at
\* the evaluation minus the stored timestamp) below cooldown_seconds,
\* whatever the reading is.
C2_YoungRecordSuppresses ==
    ev.kind = "attempt" => ~(HadRecord /\ ev.now - OldStamp < cooldown_seconds)

\* C3: a failed send (Ok(false) or Err) leaves the table exactly as it was,
\* and the pid, if at or above the threshold in the next tick, is attempted
\* again in that tick.
C3_FailureKeepsTable ==
    ev.kind \in Failures => alerted = ev.before
C3_FailureRetried ==
    /\ C3_FailureKeepsTable
    /\ (IsEval /\ AtOrAbove /\ retry[ev.pid] = 2) => ev.kind = "attempt"

\* C4: a process with cpu >= threshold (equality included) and no record is
\* attempted, exactly once in the tick, and a successful attempt creates the
\* record with the clock reading of the evaluation.
C4_FirstAlert ==
    /\ (IsEval /\ AtOrAbove /\ ~HadRecord)
          => (ev.kind = "attempt" /\ attempts[ev.pid] = 1 /\ pc = "send"
              /\ sending = <<[pid |-> ev.pid, cpu |-> ev.cpu, now |-> ev.now]>>)
    /\ \A p \in Pids : attempts[p] <= 1
    /\ (ev.kind = "Ok(true)" /\ ~HadRecord)
          => RecordsOf(alerted, ev.pid) = {<<ev.pid, ev.now>>}
C4_Witness ==
    /\ ev.kind = "Ok(true)"
    /\ ev.cpu = threshold
    /\ ~HadRecord
    /\ <<ev.pid, ev.now>> \in alerted

\* C5: a process with cpu >= threshold and a record of age >= cooldown_seconds
\* (the boundary included) is attempted; a successful attempt overwrites the
\* timestamp with the reading of the evaluation and the pid keeps one record.
C5_ExpiredRealerts ==
    /\ (IsEval /\ AtOrAbove /\ HadRecord /\ ev.now - OldStamp >= cooldown_seconds)
          => (ev.kind = "attempt" /\ pc = "send"
              /\ sending = <<[pid |-> ev.pid, cpu |-> ev.cpu, now |-> ev.now]>>)
    /\ (ev.kind = "Ok(true)" /\ HadRecord)
          => RecordsOf(alerted, ev.pid) = {<<ev.pid, ev.now>>}
    /\ \A p \in Pids : Cardinality(RecordsOf(alerted, p)) <= 1
C5_Witness ==
    /\ ev.kind = "Ok(true)"
    /\ HadRecord
    /\ cooldown_seconds > 0
    /\ ev.now - OldStamp = cooldown_seconds
    /\ RecordsOf(alerted, ev.pid) = {<<ev.pid, ev.now>>}

\* C6: the sweep at the end of every tick removes exactly the records whose
\* age at the sweep's reading is >= 5 * cooldown_seconds and keeps the others.
C6_SweepExact ==
    /\ ev.kind # "gc_panic"
    /\ ev.kind = "gc"
          => alerted = {e \in ev.before : ev.now - e[2] < 5 * cooldown_seconds}

\* C7: evaluating a process with cpu < threshold makes no attempt and leaves
\* the table unchanged.
C7_BelowIsNoop ==
    (IsEval /\ Below)
        => (ev.kind = "below" /\ alerted = ev.before /\ pc = "loop"
            /\ sending = <<>> /\ attempts[ev.pid] = 0)
C7_Witness ==
    /\ ev.kind = "below"
    /\ Below
    /\ HadRecord
    /\ alerted = ev.before

\* C8: a suppressed evaluation leaves the record as the last successful alert
\* wrote it, and an evaluation at or above the threshold whose reading is
\* >= that alert's reading + cooldown_seconds is attempted.
C8_NoSlidingWindow ==
    /\ ev.kind = "suppressed"
          => (alerted = ev.before /\ HadRecord
              /\ Get(alerted, ev.pid) = Get(lastOk, ev.pid))
    /\ (IsEval /\ AtOrAbove /\ ContainsKey(lastOk, ev.pid)
          /\ ev.now >= Get(lastOk, ev.pid) + cooldown_seconds)
          => ev.kind = "attempt"
C8_Witness ==
    /\ ev.kind = "suppressed"
    /\ ev.now > OldStamp
    /\ Get(alerted, ev.pid) = OldStamp

\* C9: while a pid stays in the table its timestamp never decreases, for
\* every sequence of clock readings.
C9_StampsNeverDecrease ==
    \A p \in Keys(alerted) \cap Keys(ev.before) :
        Get(alerted, p) >= Get(ev.before, p)

\* C10: a failed send does not abort: the loop goes on with the rest of the
\* snapshot, and the tick in which a send failed is not cut short by a panic
\* (its sweep completes and the next sleep is reached).
C10_FailureDoesNotAbort ==
    /\ ev.kind \in Failures => (pc = "loop" /\ sending = <<>>)
    /\ (\E p \in Pids : retry[p] = 1) => pc # "panicked"

\* C11: with a credential missing the program aborts before the loop: no
\* snapshot, no attempt, no table entry; the loop is entered only with both.
C11_CredentialsRequired ==
    /\ (pc # "start" /\ ~(bot_token /\ chat_id))
          => (pc = "panicked" /\ ev.kind = "abort" /\ alerted = {} /\ lastOk = {}
              /\ procs = <<>> /\ sending = <<>> /\ \A p \in Pids : attempts[p] = 0)
    /\ pc \in {"sleep", "refresh", "loop", "send"} => (bot_token /\ chat_id)
C11_Witness ==
    /\ pc = "panicked"
    /\ ev.kind = "abort"
    /\ bot_token
    /\ ~chat_id

\* C12: at most one send is in flight; while it is, the only step is its
\* outcome (no evaluation, no sweep, no new tick); and the table changes only
\* in the loop's own record and sweep steps.
C12_OneInFlight ==
    /\ Len(sending) <= 1
    /\ pc = "send" <=> sending # <<>>
C12_Serialized ==
    /\ []C12_OneInFlight
    /\ [][/\ sending # <<>>
             => (/\ sending' = <<>>
                 /\ procs' = procs
                 /\ pc' = "loop"
                 /\ ev'.kind \in SendOutcomes
                 /\ ev'.pid = sending[1].pid)
          /\ alerted' # alerted => ev'.kind \in {"Ok(true)", "gc"}]_vars
C12_Witness ==
    /\ pc = "send"
    /\ procs # <<>>
    /\ alerted # {}

\* C16: the loop is not aborted by the sweep, for any COOLDOWN_SECONDS that
\* parsed: the only abort is the one of startup.
C16_SweepNeverAborts ==
    pc = "panicked" => ev.kind = "abort"

\* C17: for cooldown_seconds > 0 the sweep removes no record whose age at the
\* sweep is below cooldown_seconds.
C17_SweepKeepsCooldown ==
    (ev.kind = "gc" /\ cooldown_seconds > 0)
        => \A e \in ev.before : ev.now - e[2] < cooldown_seconds => e \in alerted

\* C18: after the sweep of a tick every record of the table is the reading of
\* a successful notification of its pid and is less than 5 * cooldown_seconds
\* older than the sweep's reading.
C18_TableAfterSweep ==
    /\ alerted \subseteq lastOk
    /\ ev.kind = "gc" => \A e \in alerted : ev.now - e[2] < 5 * cooldown_seconds
C18_Witness ==
    /\ ev.kind = "gc"
    /\ alerted # {}
    /\ alerted # ev.before

\* C14 as claimed: every snapshot and evaluation comes after a sleep made
\* since the loop came to its head, and that sleep lasts check_interval.
C14_SleepOfInterval ==
    pc \in {"loop", "send"} => (slept # NoSleep /\ 2 * slept = check_interval)
\* C14 as amended: every snapshot and evaluation comes after a sleep made
\* since the loop came to its head; the sleep lasts check_interval cut to
\* whole milliseconds, 0 for a negative or NaN interval, at most u64::MAX ms.
RequestedHalfMillis ==
    IF check_interval = NaN \/ check_interval < 0 THEN 0 ELSE check_interval
C14_SleepBeforeSnapshot ==
    /\ pc \in {"loop", "send"}
          => /\ slept # NoSleep
             /\ 2 * slept <= RequestedHalfMillis
             /\ \/ RequestedHalfMillis - 2 * slept < 2
                \/ slept = U64Mod - 1
    /\ pc \in {"start", "sleep"} => slept = NoSleep
C14_Witness ==
    /\ ev.kind = "attempt"
    /\ check_interval = 3
    /\ slept = 1
    /\ lastOk # {}

\* C19: what the loop does with a process (skip, suppress, attempt) is the
\* same whatever the name, start time and command line of the process that
\* holds the pid: the step taken is the one taken for every other identity.
C19_DecisionIgnoresIdentity ==
    IsEval => \A s \in StartTimes :
                 ev.kind = Decision(ev.before,
                                    [pid |-> ev.pid, cpu |-> ev.cpu, start |-> s],
                                    ev.now, threshold, cooldown_seconds)
C19_Witness ==
    /\ ev.kind = "suppressed"
    /\ ev.start > OldStamp
    /\ ev.now >= ev.start

\* The orderings of a snapshot; clock readings that go with the pid
\* evaluated, and readings that go with the position in the iteration.
Reorderings(ps) ==
    {[i \in 1..Len(ps) |-> ps[f[i]]] : f \in Permutations(1..Len(ps))}
Positions == 1..Cardinality(Pids)
Slots == Positions \X Pids
ByPid(f) == [x \in Positions \X DOMAIN f |-> f[x[2]]]
\* the pids of a snapshot that are at or above the threshold
Hot(ps) == {ps[i].pid : i \in {j \in 1..Len(ps) : FGe(ps[j].cpu, threshold)}}
ByPosition(g) == [x \in Slots |-> g[x[1]]]
PidsAfterSweep(m, now) == Keys({e \in m : e[2] > now - CutoffSecs(cooldown_seconds)})

\* readings of a clock that never goes back from one process to the next
Advancing == {g \in [Positions -> Times] : \A i, j \in Positions : i <= j => g[i] <= g[j]}

\* C13 as claimed: for two orderings of the snapshot just taken and the same
\* outcome of the send per pid, the pids attempted and the pids in the table
\* after the tick are the same (the clock being read as each process is
\* reached, and never going back).
C13_OrderIndependent ==
    ev.kind = "tick" =>
        \A o \in Reorderings(procs), g \in Advancing, r \in [Pids -> SendOutcomes] :
          \A sweep \in {t \in Times : t >= g[Cardinality(Pids)]} :
            LET a == TickRun(alerted, {}, procs, 1, ByPosition(g), r)
                b == TickRun(alerted, {}, o, 1, ByPosition(g), r)
            IN /\ a.attempted = b.attempted
               /\ PidsAfterSweep(a.table, sweep) = PidsAfterSweep(b.table, sweep)
\* C13 as amended: the same, when moreover each pid at or above the threshold
\* is evaluated at the same clock reading in both orderings; then the tables
\* are equal too.  The steps of the loop are the ones the run is made of.
C13_OrderIndependentGivenReadings ==
    /\ IsEval => ev.kind = Decision(ev.before,
                                    [pid |-> ev.pid, cpu |-> ev.cpu, start |-> ev.start],
                                    ev.now, threshold, cooldown_seconds)
    /\ ev.kind \in SendOutcomes
          => alerted = Recorded(ev.before, ev.pid, ev.now, ev.kind)
    /\ (ev.kind = "tick" /\ Len(procs) > 1) =>
          \A o \in Reorderings(procs) \ {procs}, f \in [Hot(procs) -> Times],
             r \in [Hot(procs) -> SendOutcomes] :
              TickRun(alerted, {}, o, 1, ByPid(f), r)
                  = TickRun(alerted, {}, procs, 1, ByPid(f), r)
C13_Witness ==
    /\ ev.kind = "tick"
    /\ Len(procs) = 2
    /\ alerted # {}
    /\ \A i \in 1..2 : procs[i].cpu = 3

\* The records a sweep can remove before the clock leaves Times.
CanRemove(t) == t + CutoffSecs(cooldown_seconds) <= MaxTime
Removable == {e \in Pids \X Times : CanRemove(e[2])}

\* C15: while ticks keep occurring and the clock keeps advancing, the table
\* is again and again free of every record old enough to be swept, so each
\* such record is eventually removed (or replaced by the record of a later
\* successful notification of its pid).
C15_RecordsRemoved == []<>(alerted \cap Removable = {})
C15_Witness ==
    /\ ev.kind = "gc"
    /\ ev.before # {}
    /\ ev.before \subseteq Removable
    /\ alerted = {}

====
